---- MODULE Spec2Model ----
(***************************************************************************)
(* DuckLedger (src/bot.py): a Telegram expense bot.  The model covers the  *)
(* line parser, the two SQLite tables (expenses, limits), the aiogram      *)
(* router with its two FSM states, and the handlers that write the store.  *)
(*                                                                         *)
(* Text is a sequence of characters, each a string naming it.  Amounts are *)
(* exact multiples of 1/Scale (Scale = 100), so 2.5 is 250.                *)
(***************************************************************************)
EXTENDS Integers, Sequences, FiniteSets, TLC

(***************************************************************************)
(* Characters and strings                                                  *)
(***************************************************************************)

\* Unicode code point of the characters the messages of the model use.
Ord(c) ==
    CASE c = "\n" -> 10
      [] c = " " -> 32
      [] c = "+" -> 43
      [] c = "," -> 44
      [] c = "-" -> 45
      [] c = "." -> 46
      [] c = "/" -> 47
      [] c = "0" -> 48
      [] c = "1" -> 49
      [] c = "2" -> 50
      [] c = "3" -> 51
      [] c = "4" -> 52
      [] c = "5" -> 53
      [] c = "6" -> 54
      [] c = "7" -> 55
      [] c = "8" -> 56
      [] c = "9" -> 57
      [] c = "B" -> 66
      [] c = "a" -> 97
      [] c = "b" -> 98
      [] c = "c" -> 99
      [] c = "d" -> 100
      [] c = "e" -> 101
      [] c = "f" -> 102
      [] c = "g" -> 103
      [] c = "h" -> 104
      [] c = "i" -> 105
      [] c = "k" -> 107
      [] c = "l" -> 108
      [] c = "m" -> 109
      [] c = "n" -> 110
      [] c = "o" -> 111
      [] c = "p" -> 112
      [] c = "r" -> 114
      [] c = "s" -> 115
      [] c = "t" -> 116
      [] c = "x" -> 120
      [] c = "endash" -> 8211
      [] c = "emdash" -> 8212

\* U+2014 and U+2013, each one character of a text
EmDash == "emdash"
EnDash == "endash"

Digits == {"0", "1", "2", "3", "4", "5", "6", "7", "8", "9"}

DigitValue(c) == Ord(c) - 48

DigitChar(n) == <<"0", "1", "2", "3", "4", "5", "6", "7", "8", "9">>[n + 1]

\* str.isspace() on the characters of the model
IsSpace(c) == c \in {" ", "\n"}

\* s1 < s2 in code point order (Python str comparison, SQLite BINARY collation)
RECURSIVE StrLess(_, _)
StrLess(s1, s2) ==
    IF s2 = <<>> THEN FALSE
    ELSE IF s1 = <<>> THEN TRUE
    ELSE IF Ord(Head(s1)) # Ord(Head(s2)) THEN Ord(Head(s1)) < Ord(Head(s2))
    ELSE StrLess(Tail(s1), Tail(s2))

StrLeq(s1, s2) == s1 = s2 \/ StrLess(s1, s2)

\* str.find(c): 1-based index of the first occurrence, 0 when there is none
Find(s, c) ==
    IF \E i \in 1..Len(s) : s[i] = c
    THEN CHOOSE i \in 1..Len(s) : s[i] = c /\ \A j \in 1..(i - 1) : s[j] # c
    ELSE 0

\* str.strip()
RECURSIVE LStrip(_)
LStrip(s) == IF s # <<>> /\ IsSpace(Head(s)) THEN LStrip(Tail(s)) ELSE s

RECURSIVE RStrip(_)
RStrip(s) ==
    IF s # <<>> /\ IsSpace(s[Len(s)]) THEN RStrip(SubSeq(s, 1, Len(s) - 1)) ELSE s

Strip(s) == RStrip(LStrip(s))

\* str.splitlines(): no empty last line after a final line break
RECURSIVE SplitLines(_)
SplitLines(s) ==
    IF s = <<>> THEN <<>>
    ELSE LET i == Find(s, "\n")
         IN  IF i = 0 THEN <<s>>
             ELSE <<SubSeq(s, 1, i - 1)>> \o SplitLines(SubSeq(s, i + 1, Len(s)))

\* str.replace(" ", "")
RECURSIVE RemoveSpaces(_)
RemoveSpaces(s) ==
    IF s = <<>> THEN <<>>
    ELSE IF Head(s) = " " THEN RemoveSpaces(Tail(s))
    ELSE <<Head(s)>> \o RemoveSpaces(Tail(s))

\* str.replace(",", ".")
CommaToDot(s) == [i \in 1..Len(s) |-> IF s[i] = "," THEN "." ELSE s[i]]

(***************************************************************************)
(* float(): decimal literals [sign] digits [. digits] or [sign] . digits,   *)
(* and [sign] nan in any case.  The messages of the model use no exponent, *)
(* underscore or inf, so every other string is a ValueError.  The value is *)
(* in units of 1/Scale; the messages carry at most two fractional digits.  *)
(* nan: the result is the float NaN, and value means nothing.              *)
(***************************************************************************)
Scale == 100

RECURSIVE DecimalValue(_)
DecimalValue(ds) ==
    IF ds = <<>> THEN 0
    ELSE 10 * DecimalValue(SubSeq(ds, 1, Len(ds) - 1)) + DigitValue(ds[Len(ds)])

AllDigits(s) == \A i \in 1..Len(s) : s[i] \in Digits

\* value of the fraction digits fs in units of 1/Scale
FractionValue(fs) ==
    IF fs = <<>> THEN 0
    ELSE IF Len(fs) = 1 THEN 10 * DigitValue(fs[1])
    ELSE 10 * DigitValue(fs[1]) + DigitValue(fs[2])

ValueError == [ok |-> FALSE, value |-> 0, nan |-> FALSE]

NaN == [ok |-> TRUE, value |-> 0, nan |-> TRUE]

IsNanLiteral(s) ==
    /\ Len(s) = 3
    /\ s[1] \in {"n", "N"}
    /\ s[2] \in {"a", "A"}
    /\ s[3] \in {"n", "N"}

UnsignedFloat(s) ==
    LET dot == Find(s, ".")
        ip  == IF dot = 0 THEN s ELSE SubSeq(s, 1, dot - 1)
        fp  == IF dot = 0 THEN <<>> ELSE SubSeq(s, dot + 1, Len(s))
    IN  IF IsNanLiteral(s) THEN NaN
        ELSE IF AllDigits(ip) /\ AllDigits(fp) /\ Len(ip) + Len(fp) > 0
        THEN [ok |-> TRUE, value |-> Scale * DecimalValue(ip) + FractionValue(fp),
              nan |-> FALSE]
        ELSE ValueError

float(s) ==
    IF s = <<>> THEN ValueError
    ELSE IF Head(s) = "-"
         THEN LET r == UnsignedFloat(Tail(s))
              IN  IF r.ok THEN [r EXCEPT !.value = 0 - r.value] ELSE ValueError
    ELSE IF Head(s) = "+" THEN UnsignedFloat(Tail(s))
    ELSE UnsignedFloat(s)

(***************************************************************************)
(* parse_lines_category_amount                                             *)
(***************************************************************************)

\* lines = [line.strip() for line in text.splitlines() if line.strip()]
RECURSIVE StripNonBlank(_)
StripNonBlank(ls) ==
    IF ls = <<>> THEN <<>>
    ELSE IF Strip(Head(ls)) = <<>> THEN StripNonBlank(Tail(ls))
    ELSE <<Strip(Head(ls))>> \o StripNonBlank(Tail(ls))

NonBlankLines(text) == StripNonBlank(SplitLines(text))

\* for sep in ["-", em dash, en dash]: if sep in line: sep_index = line.find(sep); break
SepIndex(line) ==
    IF Find(line, "-") # 0 THEN Find(line, "-")
    ELSE IF Find(line, EmDash) # 0 THEN Find(line, EmDash)
    ELSE Find(line, EnDash)

\* The body of the loop over the lines once sep_index is found: one (category,
\* amount) or a ParseError.  NaN <= 0 is false: a NaN amount passes the test of
\* the sign.
ParseLineAt(line, sep_index) ==
    LET category   == Strip(SubSeq(line, 1, sep_index - 1))
        amount_str == CommaToDot(RemoveSpaces(Strip(SubSeq(line, sep_index + 1, Len(line)))))
        amount     == float(amount_str)
        Err(e)     == [ok |-> FALSE, error |-> e, line |-> line,
                       category |-> <<>>, amount |-> 0, nan |-> FALSE]
    IN  IF sep_index = 0 THEN Err("MissingSeparator")
        ELSE IF category = <<>> THEN Err("EmptyCategory")
        ELSE IF amount_str = <<>> THEN Err("EmptyAmount")
        ELSE IF ~amount.ok THEN Err("InvalidAmount")
        ELSE IF ~amount.nan /\ amount.value <= 0 THEN Err("NonPositiveAmount")
        ELSE [ok |-> TRUE, error |-> "", line |-> line,
              category |-> category, amount |-> amount.value, nan |-> amount.nan]

ParseLine(line) == ParseLineAt(line, SepIndex(line))

\* Faulty variant of ParseLoop: a bad line is skipped and the valid pairs are kept.
RECURSIVE ParseLoop_skip_bad(_, _)
ParseLoop_skip_bad(lines, result) ==
    IF lines = <<>>
    THEN (IF result = <<>>
          THEN [ok |-> FALSE, items |-> <<>>, error |-> "EmptyInput", line |-> <<>>]
          ELSE [ok |-> TRUE, items |-> result, error |-> "", line |-> <<>>])
    ELSE LET p == ParseLine(Head(lines))
         IN  IF ~p.ok
             THEN ParseLoop_skip_bad(Tail(lines), result)
             ELSE ParseLoop_skip_bad(Tail(lines),
                      Append(result, [category |-> p.category, amount |-> p.amount,
                                      nan |-> p.nan]))

\* The loop: the first bad line raises, and the pairs collected so far are dropped.
RECURSIVE ParseLoop(_, _)
ParseLoop(lines, result) ==
    IF lines = <<>> THEN [ok |-> TRUE, items |-> result, error |-> "", line |-> <<>>]
    ELSE LET p == ParseLine(Head(lines))
         IN  IF ~p.ok
             THEN [ok |-> FALSE, items |-> <<>>, error |-> p.error, line |-> p.line]
             ELSE ParseLoop(Tail(lines),
                            Append(result, [category |-> p.category, amount |-> p.amount,
                                      nan |-> p.nan]))

parse_lines_category_amount(text) ==
    LET lines == NonBlankLines(text)
    IN  IF lines = <<>>
        THEN [ok |-> FALSE, items |-> <<>>, error |-> "EmptyInput", line |-> <<>>]
        ELSE ParseLoop(lines, <<>>)

(***************************************************************************)
(* Dates: datetime.date as [year, month, day]                              *)
(***************************************************************************)

IsLeap(y) == (y % 4 = 0 /\ y % 100 # 0) \/ y % 400 = 0

DaysInMonth(y, m) ==
    IF m = 2 THEN (IF IsLeap(y) THEN 29 ELSE 28)
    ELSE IF m \in {4, 6, 9, 11} THEN 30
    ELSE 31

\* d + timedelta(days=1)
NextDay(d) ==
    IF d.day < DaysInMonth(d.year, d.month)
    THEN [d EXCEPT !.day = d.day + 1]
    ELSE IF d.month < 12 THEN [year |-> d.year, month |-> d.month + 1, day |-> 1]
    ELSE [year |-> d.year + 1, month |-> 1, day |-> 1]

\* d - timedelta(days=1)
PrevDay(d) ==
    IF d.day > 1 THEN [d EXCEPT !.day = d.day - 1]
    ELSE IF d.month > 1
         THEN [year |-> d.year, month |-> d.month - 1,
               day |-> DaysInMonth(d.year, d.month - 1)]
    ELSE [year |-> d.year - 1, month |-> 12, day |-> 31]

Pad2(n) == <<DigitChar(n \div 10), DigitChar(n % 10)>>

Pad4(n) == <<DigitChar(n \div 1000), DigitChar((n \div 100) % 10),
             DigitChar((n \div 10) % 10), DigitChar(n % 10)>>

\* d.strftime("%Y-%m-%d")
strftime_Ymd(d) == Pad4(d.year) \o <<"-">> \o Pad2(d.month) \o <<"-">> \o Pad2(d.day)

\* datetime.strptime(dt_str, "%Y-%m-%d")
strptime_Ymd(s) ==
    [year  |-> DecimalValue(SubSeq(s, 1, 4)),
     month |-> DecimalValue(SubSeq(s, 6, 7)),
     day   |-> DecimalValue(SubSeq(s, 9, 10))]

\* d.strftime("%d.%m.%Y")
strftime_dmY(d) == Pad2(d.day) \o <<".">> \o Pad2(d.month) \o <<".">> \o Pad4(d.year)

get_current_month_range(today) ==
    LET start      == [year |-> today.year, month |-> today.month, day |-> 1]
        next_month == IF today.month = 12
                      THEN [year |-> today.year + 1, month |-> 1, day |-> 1]
                      ELSE [year |-> today.year, month |-> today.month + 1, day |-> 1]
    IN  [start |-> start, end |-> PrevDay(next_month)]

\* Faulty variant of Between: the last day of the month is left out.
Between_before_end(dt, start_str, end_str) == StrLeq(start_str, dt) /\ StrLess(dt, end_str)

\* dt BETWEEN start_str AND end_str on the TEXT column
Between(dt, start_str, end_str) == StrLeq(start_str, dt) /\ StrLeq(dt, end_str)

\* Faulty variant of MonthRows: the rows of every user.
MonthRows_of_all_users(tbl, user_id, today) ==
    LET start_str == strftime_Ymd(get_current_month_range(today).start)
        end_str   == strftime_Ymd(get_current_month_range(today).end)
    IN  SelectSeq(tbl, LAMBDA r : Between(r.dt, start_str, end_str))

\* SELECT ... FROM expenses WHERE user_id = ? AND dt BETWEEN ? AND ?, with the
\* bounds of the current month
MonthRows(tbl, user_id, today) ==
    LET start_str == strftime_Ymd(get_current_month_range(today).start)
        end_str   == strftime_Ymd(get_current_month_range(today).end)
    IN  SelectSeq(tbl, LAMBDA r : r.user_id = user_id /\ Between(r.dt, start_str, end_str))

(***************************************************************************)
(* Sequences and sorting                                                   *)
(***************************************************************************)

Range(s) == {s[i] : i \in 1..Len(s)}

\* sorted(S) for a set of strings; ORDER BY on a TEXT column
RECURSIVE SortedStrings(_)
SortedStrings(S) ==
    IF S = {} THEN <<>>
    ELSE LET m == CHOOSE x \in S : \A y \in S : StrLeq(x, y)
         IN  <<m>> \o SortedStrings(S \ {m})

\* SUM(amount) over the rows of a table
RECURSIVE SumAmount(_)
SumAmount(rows) ==
    IF rows = <<>> THEN 0 ELSE Head(rows).amount + SumAmount(Tail(rows))

(***************************************************************************)
(* The store.  expenses: the rows of the table in rowid order, each        *)
(* [id, user_id, dt, category, amount]; limits: the rows in rowid order,   *)
(* each [user_id, category, limit_amount].                                 *)
(***************************************************************************)

\* Faulty variant of add_expenses_db: the items are inserted last line first.
add_expenses_db_reversed(tbl, seq, user_id, items, dt) ==
    tbl \o [i \in 1..Len(items) |->
               [id       |-> seq + i,
                user_id  |-> user_id,
                dt       |-> strftime_Ymd(dt),
                category |-> items[Len(items) + 1 - i].category,
                amount   |-> items[Len(items) + 1 - i].amount]]

\* Faulty variant of add_expenses_db: an item equal to a stored record of the
\* user and day is skipped.
add_expenses_db_dedup(tbl, seq, user_id, items, dt) ==
    LET fresh == SelectSeq(items, LAMBDA it :
                     ~\E k \in 1..Len(tbl) :
                         /\ tbl[k].user_id = user_id
                         /\ tbl[k].dt = strftime_Ymd(dt)
                         /\ tbl[k].category = it.category
                         /\ tbl[k].amount = it.amount)
    IN  tbl \o [i \in 1..Len(fresh) |->
                   [id       |-> seq + i,
                    user_id  |-> user_id,
                    dt       |-> strftime_Ymd(dt),
                    category |-> fresh[i].category,
                    amount   |-> fresh[i].amount]]

\* One INSERT per item, ids from the AUTOINCREMENT sequence, then commit.
add_expenses_db(tbl, seq, user_id, items, dt) ==
    tbl \o [i \in 1..Len(items) |->
               [id       |-> seq + i,
                user_id  |-> user_id,
                dt       |-> strftime_Ymd(dt),
                category |-> items[i].category,
                amount   |-> items[i].amount]]

\* Faulty variant of IntegrityError: the columns are declared without NOT NULL,
\* and the NULL is stored.
IntegrityError_nullable(items) == FALSE

\* sqlite3 binds the float NaN as NULL, and amount and limit_amount are NOT NULL:
\* the INSERT of an item whose amount is NaN raises IntegrityError.
IntegrityError(items) == \E i \in 1..Len(items) : items[i].nan

\* The number of the first item whose INSERT raises
FirstRaising(items) ==
    CHOOSE k \in 1..Len(items) : items[k].nan /\ \A j \in 1..(k - 1) : ~items[j].nan

\* Faulty variant of add_expenses_db_raised: every INSERT is committed on its
\* own, and the items before the raising one stay.
add_expenses_db_autocommit(tbl, seq, user_id, items, dt) ==
    add_expenses_db(tbl, seq, user_id, SubSeq(items, 1, FirstRaising(items) - 1), dt)

\* add_expenses_db when an INSERT raises: the exception leaves the with block
\* of the connection before conn.commit(), and the block rolls the transaction
\* back, the INSERTs before the raising one (and their ids) included.
add_expenses_db_raised(tbl, seq, user_id, items, dt) == tbl

\* Faulty variant of Upsert: a plain INSERT on a table without the UNIQUE constraint.
Upsert_insert_always(tbl, user_id, category, limit_amount) ==
    Append(tbl, [user_id |-> user_id, category |-> category,
                 limit_amount |-> limit_amount])

\* Faulty variant of Upsert: ON CONFLICT DO NOTHING.
Upsert_keep_first(tbl, user_id, category, limit_amount) ==
    IF \E i \in 1..Len(tbl) : tbl[i].user_id = user_id /\ tbl[i].category = category
    THEN tbl
    ELSE Append(tbl, [user_id |-> user_id, category |-> category,
                      limit_amount |-> limit_amount])

\* INSERT ... ON CONFLICT(user_id, category) DO UPDATE SET limit_amount = excluded.limit_amount
Upsert(tbl, user_id, category, limit_amount) ==
    IF \E i \in 1..Len(tbl) : tbl[i].user_id = user_id /\ tbl[i].category = category
    THEN [i \in 1..Len(tbl) |->
             IF tbl[i].user_id = user_id /\ tbl[i].category = category
             THEN [tbl[i] EXCEPT !.limit_amount = limit_amount]
             ELSE tbl[i]]
    ELSE Append(tbl, [user_id |-> user_id, category |-> category,
                      limit_amount |-> limit_amount])

RECURSIVE UpsertAll(_, _, _)
UpsertAll(tbl, user_id, items) ==
    IF items = <<>> THEN tbl
    ELSE UpsertAll(Upsert(tbl, user_id, Head(items).category, Head(items).amount),
                   user_id, Tail(items))

set_limits_db(tbl, user_id, items) == UpsertAll(tbl, user_id, items)

\* set_limits_db when an INSERT raises: rolled back in the same way
set_limits_db_raised(tbl, user_id, items) == tbl

\* ORDER BY category: r goes before the first row whose category is not smaller
RECURSIVE InsertByCategory(_, _)
InsertByCategory(r, sorted) ==
    IF sorted = <<>> THEN <<r>>
    ELSE IF StrLeq(r.category, Head(sorted).category) THEN <<r>> \o sorted
    ELSE <<Head(sorted)>> \o InsertByCategory(r, Tail(sorted))

RECURSIVE OrderByCategory(_)
OrderByCategory(rows) ==
    IF rows = <<>> THEN <<>>
    ELSE InsertByCategory(Head(rows), OrderByCategory(Tail(rows)))

\* SELECT category, limit_amount FROM limits WHERE user_id = ? ORDER BY category
get_limits_db(tbl, user_id) ==
    LET rows == OrderByCategory(SelectSeq(tbl, LAMBDA r : r.user_id = user_id))
    IN  [i \in 1..Len(rows) |-> <<rows[i].category, rows[i].limit_amount>>]

\* Faulty variant of clear_user_data: DELETE FROM expenses, without the WHERE.
clear_all_data(tbl, user_id) == <<>>

\* DELETE FROM expenses WHERE user_id = ?
clear_user_data(tbl, user_id) == SelectSeq(tbl, LAMBDA r : r.user_id # user_id)

\* SELECT dt, category, SUM(amount) ... WHERE user_id = ? AND dt BETWEEN ? AND ?
\* GROUP BY dt, category, then the dict data[dt][category] and the two sorted lists.
get_month_dates_and_categories(tbl, user_id, today) ==
    LET sel    == MonthRows(tbl, user_id, today)
        groups == {<<r.dt, r.category>> : r \in Range(sel)}
        data   == [d \in {g[1] : g \in groups} |->
                      [c \in {g[2] : g \in {h \in groups : h[1] = d}} |->
                          SumAmount(SelectSeq(sel, LAMBDA r : r.dt = d /\ r.category = c))]]
    IN  [dates      |-> SortedStrings(DOMAIN data),
         categories |-> SortedStrings({g[2] : g \in groups}),
         data       |-> data]

\* Faulty variant of Workbook: a cell without a value is written as 0.
Workbook_zero_filled(dates, categories, data) ==
    [header |-> categories,
     rows   |-> [i \in 1..Len(dates) |->
                   [date  |-> strftime_dmY(strptime_Ymd(dates[i])),
                    cells |-> [j \in 1..Len(categories) |->
                                 IF categories[j] \in DOMAIN data[dates[i]]
                                 THEN [blank |-> FALSE,
                                       value |-> data[dates[i]][categories[j]]]
                                 ELSE [blank |-> FALSE, value |-> 0]]]]]

\* The sheet both exports build: the header row, then one row per date; a cell
\* is written only when data[dt] has the category.
Workbook(dates, categories, data) ==
    [header |-> categories,
     rows   |-> [i \in 1..Len(dates) |->
                   [date  |-> strftime_dmY(strptime_Ymd(dates[i])),
                    cells |-> [j \in 1..Len(categories) |->
                                 IF categories[j] \in DOMAIN data[dates[i]]
                                 THEN [blank |-> FALSE,
                                       value |-> data[dates[i]][categories[j]]]
                                 ELSE [blank |-> TRUE, value |-> 0]]]]]

NoDocument == [header |-> <<>>, rows |-> <<>>]

(***************************************************************************)
(* Messages and the router                                                 *)
(***************************************************************************)

Users == {1, 2}

\* The texts a user sends.
TextStart      == <<"/", "s", "t", "a", "r", "t">>
TextHelp       == <<"/", "h", "e", "l", "p">>
TextInsert     == <<"/", "i", "n", "s", "e", "r", "t">>
TextLimit      == <<"/", "l", "i", "m", "i", "t">>
TextAnalitick  == <<"/", "a", "n", "a", "l", "i", "t", "i", "c", "k">>
TextStats      == <<"/", "s", "t", "a", "t", "s">>
TextCategories == <<"/", "c", "a", "t", "e", "g", "o", "r", "i", "e", "s">>
TextExport     == <<"/", "e", "x", "p", "o", "r", "t">>
TextMake       == <<"/", "m", "a", "k", "e">>
\* "/make a-5": the /make command with an argument that is a valid line
TextMakeArg    == <<"/", "m", "a", "k", "e", " ", "a", "-", "5">>
\* "/x": no command of the bot
TextUnknown    == <<"/", "x">>
\* "a-5"
TextOne        == <<"a", "-", "5">>
\* "a-7", a blank line, "a-2,5": one category twice
TextTwo        == <<"a", "-", "7", "\n", " ", "\n", "a", "-", "2", ",", "5">>
\* "B (en dash) 1"
TextEnDash     == <<"B", " ", EnDash, " ", "1">>
\* "a-5" then "b": a valid line before a line without separator
TextBadSecond  == <<"a", "-", "5", "\n", "b">>
\* "a-0"
TextZero       == <<"a", "-", "0">>
\* "-5": no category
TextNoCategory == <<"-", "5">>
\* "a-5-3": the amount is no number
TextBadAmount  == <<"a", "-", "5", "-", "3">>
\* "a-5" then "a-nan": a valid line before a line whose amount float() reads as NaN
TextNaN        == <<"a", "-", "5", "\n", "a", "-", "n", "a", "n">>
\* "a (em dash) 5"
TextEmDash     == <<"a", EmDash, "5">>
\* "a (em dash) b-5": an em dash before a hyphen
TextEmHyphen   == <<"a", EmDash, "b", "-", "5">>
\* "a (en dash) b (em dash) 5": an en dash before an em dash
TextEnEm       == <<"a", EnDash, "b", EmDash, "5">>
\* "a-5 (em dash) 3": a hyphen before an em dash
TextHyphenEm   == <<"a", "-", "5", EmDash, "3">>
\* "b": no separator
TextNoSeparator == <<"b">>

\* The texts of the model, numbered: a message is (sender, number of its text).
TextList ==
    <<TextStart, TextHelp, TextInsert, TextLimit, TextAnalitick, TextStats,
      TextCategories, TextExport, TextMake, TextMakeArg, TextUnknown, TextOne,
      TextTwo, TextEnDash, TextBadSecond, TextZero, TextNoCategory, TextBadAmount,
      TextNaN, TextEmDash, TextEmHyphen, TextEnEm, TextHyphenEm, TextNoSeparator>>

Texts == 1..Len(TextList)

\* The number of a text in TextList
Nr(text) == CHOOSE m \in Texts : TextList[m] = text

\* The lines that are sent to the parser only (one line each, with the
\* separators in every order)
SeparatorTexts ==
    {Nr(TextEmDash), Nr(TextEmHyphen), Nr(TextEnEm), Nr(TextHyphenEm),
     Nr(TextNoSeparator)}

\* What each user sends: user 1 every other text, user 2 a few of them.
TextsOf(u) ==
    IF u = 1 THEN Texts \ SeparatorTexts
    ELSE {Nr(TextOne), Nr(TextLimit), Nr(TextMake)}

\* text.split(maxsplit=1)[0]; empty when the text is all whitespace
FirstToken(text) ==
    LET t == LStrip(text)
    IN  IF \E i \in 1..Len(t) : IsSpace(t[i])
        THEN SubSeq(t, 1, (CHOOSE i \in 1..Len(t) :
                              IsSpace(t[i]) /\ \A j \in 1..(i - 1) : ~IsSpace(t[j])) - 1)
        ELSE t

\* The Command(name) filter of aiogram: prefix "/", the command up to the first
\* whitespace, compared case-sensitively (the texts carry no "@" mention).
IsCommand(text, name) ==
    LET tok == FirstToken(text)
    IN  tok # <<>> /\ Head(tok) = "/" /\ Tail(tok) = Tail(name)

\* FSM states of a user: None, InsertState.waiting_data, LimitState.waiting_limits
NoState        == "None"
waiting_data   == "InsertState:waiting_data"
waiting_limits == "LimitState:waiting_limits"

\* The router runs the first handler, in registration order, whose filter accepts
\* the message.
Dispatch(state, text) ==
    IF IsCommand(text, TextStart) THEN "cmd_start"
    ELSE IF IsCommand(text, TextHelp) THEN "cmd_help"
    ELSE IF IsCommand(text, TextInsert) THEN "cmd_insert"
    ELSE IF state = waiting_data THEN "process_insert_data"
    ELSE IF IsCommand(text, TextLimit) THEN "cmd_limit"
    ELSE IF state = waiting_limits THEN "process_limits"
    ELSE IF IsCommand(text, TextAnalitick) THEN "cmd_analitick"
    ELSE IF IsCommand(text, TextStats) THEN "cmd_stats"
    ELSE IF IsCommand(text, TextCategories) THEN "cmd_categories"
    ELSE IF IsCommand(text, TextExport) THEN "cmd_export"
    ELSE IF IsCommand(text, TextMake) THEN "cmd_make"
    ELSE IF text # <<>> /\ Head(text) # "/" THEN "auto_insert"
    ELSE "unhandled"

FsmStates == {NoState, waiting_data, waiting_limits}

\* Dispatch and the parser tabulated over the texts of the model
HandlerOf == [state \in FsmStates |-> [m \in Texts |-> Dispatch(state, TextList[m])]]

Parsed == [m \in Texts |-> parse_lines_category_amount(TextList[m])]

\* Faulty variant of get_month_expenses_by_category: each category with the
\* amount of one of its rows, not with their sum.
get_month_expenses_by_category_one_row(tbl, user_id, today) ==
    LET sel == MonthRows(tbl, user_id, today)
    IN  [c \in {r.category : r \in Range(sel)} |->
            Head(SelectSeq(sel, LAMBDA r : r.category = c)).amount]

\* SELECT category, SUM(amount) ... WHERE user_id = ? AND dt BETWEEN ? AND ?
\* GROUP BY category: the dict category -> total
get_month_expenses_by_category(tbl, user_id, today) ==
    LET sel == MonthRows(tbl, user_id, today)
    IN  [c \in {r.category : r \in Range(sel)} |->
            SumAmount(SelectSeq(sel, LAMBDA r : r.category = c))]

\* ORDER BY SUM(amount) DESC: the orders the rows, and so the keys of the dict,
\* may come in; categories of equal sums come in either order.
SumDescOrders(stats) ==
    LET n == Cardinality(DOMAIN stats)
    IN  {o \in [1..n -> DOMAIN stats] :
            /\ \A i, j \in 1..n : i # j => o[i] # o[j]
            /\ \A i \in 1..(n - 1) : stats[o[i]] >= stats[o[i + 1]]}

\* SELECT DISTINCT category ... ORDER BY category
get_month_categories(tbl, user_id, today) ==
    LET sel == MonthRows(tbl, user_id, today)
    IN  SortedStrings({r.category : r \in Range(sel)})

(***************************************************************************)
(* State                                                                   *)
(***************************************************************************)

VARIABLES
    today,          \* date.today()
    ticks,          \* days passed since the start
    fsm,            \* FSM state of each user
    expenses,       \* table expenses
    expenses_seq,   \* its AUTOINCREMENT sequence: the largest id ever given
    limits,         \* table limits
    update_id,      \* number of messages received so far
    make,           \* per user: the /make handler suspended on sending, if any
    ev              \* the last handler step: [handler, user, reply, line, data, document]

vars == <<today, ticks, fsm, expenses, expenses_seq, limits, update_id, make, ev>>

\* Bounds of the model
MaxTicks == 1
MaxUpdates == 3

StartDates == {[year |-> 2024, month |-> 12, day |-> 31]}

\* init_db keeps the rows of an existing budget.db (CREATE TABLE IF NOT EXISTS):
\* the bot starts on a fresh database, or on one an earlier run has filled.
FreshStore == [expenses |-> <<>>, expenses_seq |-> 0, limits |-> <<>>]

EarlierStore ==
    [expenses |->
        <<[id |-> 1, user_id |-> 1,
           dt |-> strftime_Ymd([year |-> 2024, month |-> 11, day |-> 30]),
           category |-> <<"a">>, amount |-> 5 * Scale],
          [id |-> 2, user_id |-> 2,
           dt |-> strftime_Ymd([year |-> 2024, month |-> 12, day |-> 30]),
           category |-> <<"a">>, amount |-> 5 * Scale]>>,
     expenses_seq |-> 2,
     limits |->
        <<[user_id |-> 1, category |-> <<"a">>, limit_amount |-> 5 * Scale],
          [user_id |-> 2, category |-> <<"a">>, limit_amount |-> 5 * Scale]>>]

MakeIdle == [pc |-> "idle", document |-> NoDocument]

\* reply: what the step sent to the user; line: the line an error reply quotes;
\* data: the lines of figures of a report, each [kind, category, amount];
\* document: the sheet of a sent file
Event(handler, user, reply) ==
    [handler |-> handler, user |-> user, reply |-> reply, line |-> <<>>,
     data |-> <<>>, document |-> NoDocument]

ErrorEvent(handler, user, line) ==
    [Event(handler, user, "error") EXCEPT !.line = line]

Report(handler, user, reply, data) ==
    [Event(handler, user, reply) EXCEPT !.data = data]

Delivery(handler, user, reply, document) ==
    [Event(handler, user, reply) EXCEPT !.document = document]

\* One line of a report: f"{cat}: {amount:.2f}"
Line(kind, category, amount) ==
    [kind |-> kind, category |-> category, amount |-> amount]

Init ==
    /\ today \in StartDates
    /\ ticks = 0
    /\ fsm = [u \in Users |-> NoState]
    /\ \E store \in {FreshStore, EarlierStore} :
          /\ expenses = store.expenses
          /\ expenses_seq = store.expenses_seq
          /\ limits = store.limits
    /\ update_id = 0
    /\ make = [u \in Users |-> MakeIdle]
    /\ ev = Event("init", 0, "none")

(***************************************************************************)
(* Handlers.  Each takes the sender u and the number m of the text of the  *)
(* message.  A reply (message.answer) is delivered within the step; only   *)
(* /make is split at its await, where its delivery may fail and other      *)
(* messages are handled meanwhile.                                         *)
(***************************************************************************)

\* The message is one more update of the polling loop.
Received == update_id < MaxUpdates /\ update_id' = update_id + 1

cmd_start(u, m) ==
    /\ HandlerOf[fsm[u]][m] = "cmd_start"
    /\ Received
    /\ ev' = Event("cmd_start", u, "welcome")
    /\ UNCHANGED <<today, ticks, fsm, expenses, expenses_seq, limits, make>>

cmd_help(u, m) ==
    /\ HandlerOf[fsm[u]][m] = "cmd_help"
    /\ Received
    /\ ev' = Event("cmd_help", u, "help")
    /\ UNCHANGED <<today, ticks, fsm, expenses, expenses_seq, limits, make>>

cmd_insert(u, m) ==
    /\ HandlerOf[fsm[u]][m] = "cmd_insert"
    /\ Received
    /\ fsm' = [fsm EXCEPT ![u] = waiting_data]
    /\ ev' = Event("cmd_insert", u, "prompt")
    /\ UNCHANGED <<today, ticks, expenses, expenses_seq, limits, make>>

\* An exception of the store leaves the handler before the reply and before
\* state.clear(); the dispatcher logs it and goes on with the next update.

\* Faulty variant of process_insert_data: state.clear() also on a ParseError.
process_insert_data_clear_on_error(u, m) ==
    /\ HandlerOf[fsm[u]][m] = "process_insert_data"
    /\ Received
    /\ \E p \in {Parsed[m]} :
           IF ~p.ok
           THEN /\ ev' = ErrorEvent("process_insert_data", u, p.line)
                /\ fsm' = [fsm EXCEPT ![u] = NoState]
                /\ UNCHANGED <<expenses, expenses_seq>>
           ELSE IF IntegrityError(p.items)
           THEN /\ expenses' = add_expenses_db_raised(expenses, expenses_seq, u,
                                                      p.items, today)
                /\ ev' = Event("process_insert_data", u, "exception")
                /\ UNCHANGED <<fsm, expenses_seq>>
           ELSE /\ expenses' = add_expenses_db(expenses, expenses_seq, u, p.items, today)
                /\ expenses_seq' = expenses_seq + Len(p.items)
                /\ ev' = Event("process_insert_data", u, "added")
                /\ fsm' = [fsm EXCEPT ![u] = NoState]
    /\ UNCHANGED <<today, ticks, limits, make>>

process_insert_data(u, m) ==
    /\ HandlerOf[fsm[u]][m] = "process_insert_data"
    /\ Received
    /\ \E p \in {Parsed[m]} :
           IF ~p.ok
           THEN /\ ev' = ErrorEvent("process_insert_data", u, p.line)
                /\ UNCHANGED <<fsm, expenses, expenses_seq>>
           ELSE IF IntegrityError(p.items)
           THEN /\ expenses' = add_expenses_db_raised(expenses, expenses_seq, u,
                                                      p.items, today)
                /\ ev' = Event("process_insert_data", u, "exception")
                /\ UNCHANGED <<fsm, expenses_seq>>
           ELSE /\ expenses' = add_expenses_db(expenses, expenses_seq, u, p.items, today)
                /\ expenses_seq' = expenses_seq + Len(p.items)
                /\ ev' = Event("process_insert_data", u, "added")
                /\ fsm' = [fsm EXCEPT ![u] = NoState]
    /\ UNCHANGED <<today, ticks, limits, make>>

cmd_limit(u, m) ==
    /\ HandlerOf[fsm[u]][m] = "cmd_limit"
    /\ Received
    /\ fsm' = [fsm EXCEPT ![u] = waiting_limits]
    /\ ev' = Event("cmd_limit", u, "prompt")
    /\ UNCHANGED <<today, ticks, expenses, expenses_seq, limits, make>>

\* The limits just set, then all limits of the user as get_limits_db lists them
limits_answer(tbl, u, items) ==
    LET all == get_limits_db(tbl, u)
    IN  Report("process_limits", u, "limits_updated",
               [i \in 1..Len(items) |->
                   Line("new_limit", items[i].category, items[i].amount)]
               \o [i \in 1..Len(all) |-> Line("limit", all[i][1], all[i][2])])

process_limits(u, m) ==
    /\ HandlerOf[fsm[u]][m] = "process_limits"
    /\ Received
    /\ \E p \in {Parsed[m]} :
           IF ~p.ok
           THEN /\ ev' = ErrorEvent("process_limits", u, p.line)
                /\ UNCHANGED <<fsm, limits>>
           ELSE IF IntegrityError(p.items)
           THEN /\ limits' = set_limits_db_raised(limits, u, p.items)
                /\ ev' = Event("process_limits", u, "exception")
                /\ UNCHANGED fsm
           ELSE /\ limits' = set_limits_db(limits, u, p.items)
                /\ ev' = limits_answer(limits', u, p.items)
                /\ fsm' = [fsm EXCEPT ![u] = NoState]
    /\ UNCHANGED <<today, ticks, expenses, expenses_seq, make>>

\* The total, the top three and every category with its sum (the share of the
\* total that stands next to each sum is left out: sum * 100 / total).
\* sorted() is stable, so sorted_items keeps the order of the dict.  The answers
\* /analitick may give on the table tbl.
analitick_answers(tbl, u, day) ==
    LET stats == get_month_expenses_by_category(tbl, u, day)
    IN  IF DOMAIN stats = {}
        THEN {Event("cmd_analitick", u, "no_data")}
        ELSE {LET lines == [i \in 1..Len(o) |-> Line("spent", o[i], stats[o[i]])]
                  top3  == [i \in 1..(IF Len(o) < 3 THEN Len(o) ELSE 3) |->
                               Line("top", o[i], stats[o[i]])]
              IN  Report("cmd_analitick", u, "analytics",
                         <<Line("total", <<>>, SumAmount(lines))>> \o top3 \o lines)
              : o \in SumDescOrders(stats)}

cmd_analitick(u, m) ==
    /\ HandlerOf[fsm[u]][m] = "cmd_analitick"
    /\ Received
    /\ ev' \in analitick_answers(expenses, u, today)
    /\ UNCHANGED <<today, ticks, fsm, expenses, expenses_seq, limits, make>>

\* The total, then one line per category of the dict, in its order: the answers
\* /stats may give on the table tbl.
stats_answers(tbl, u, day) ==
    LET stats == get_month_expenses_by_category(tbl, u, day)
    IN  IF DOMAIN stats = {}
        THEN {Event("cmd_stats", u, "no_data")}
        ELSE {LET lines == [i \in 1..Len(o) |-> Line("spent", o[i], stats[o[i]])]
              IN  Report("cmd_stats", u, "summary",
                         <<Line("total", <<>>, SumAmount(lines))>> \o lines)
              : o \in SumDescOrders(stats)}

cmd_stats(u, m) ==
    /\ HandlerOf[fsm[u]][m] = "cmd_stats"
    /\ Received
    /\ ev' \in stats_answers(expenses, u, today)
    /\ UNCHANGED <<today, ticks, fsm, expenses, expenses_seq, limits, make>>

\* The list of the categories of the month
categories_answer(tbl, u, day) ==
    LET cats == get_month_categories(tbl, u, day)
    IN  IF cats = <<>>
        THEN Event("cmd_categories", u, "no_data")
        ELSE Report("cmd_categories", u, "categories",
                    [i \in 1..Len(cats) |-> Line("category", cats[i], 0)])

cmd_categories(u, m) ==
    /\ HandlerOf[fsm[u]][m] = "cmd_categories"
    /\ Received
    /\ ev' = categories_answer(expenses, u, today)
    /\ UNCHANGED <<today, ticks, fsm, expenses, expenses_seq, limits, make>>

\* The sheet of the month as a file, or the answer that there is nothing to export
export_answer(tbl, u, day) ==
    LET q == get_month_dates_and_categories(tbl, u, day)
    IN  IF q.dates = <<>> \/ q.categories = <<>>
        THEN Event("cmd_export", u, "no_data")
        ELSE Delivery("cmd_export", u, "document",
                      Workbook(q.dates, q.categories, q.data))

cmd_export(u, m) ==
    /\ HandlerOf[fsm[u]][m] = "cmd_export"
    /\ Received
    /\ ev' = export_answer(expenses, u, today)
    /\ UNCHANGED <<today, ticks, fsm, expenses, expenses_seq, limits, make>>

\* Faulty variant of cmd_make: clear_user_data runs before the send.
cmd_make_clear_first(u, m) ==
    /\ HandlerOf[fsm[u]][m] = "cmd_make"
    /\ Received
    /\ make[u].pc = "idle"
    /\ LET q == get_month_dates_and_categories(expenses, u, today)
       IN  IF q.dates # <<>> /\ q.categories # <<>>
           THEN /\ make' = [make EXCEPT ![u] =
                               [pc |-> "send_document",
                                document |-> Workbook(q.dates, q.categories, q.data)]]
                /\ ev' = Delivery("cmd_make", u, "document",
                                  Workbook(q.dates, q.categories, q.data))
           ELSE /\ make' = [make EXCEPT ![u] =
                               [pc |-> "send_notice", document |-> NoDocument]]
                /\ ev' = Event("cmd_make", u, "notice")
    /\ expenses' = clear_user_data(expenses, u)
    /\ UNCHANGED <<today, ticks, fsm, expenses_seq, limits>>

\* /make up to its first await: the export query, the sheet, and the send of the
\* document (or of the notice that there is nothing to export) started.  The
\* model keeps at most one /make of a user in flight.
cmd_make(u, m) ==
    /\ HandlerOf[fsm[u]][m] = "cmd_make"
    /\ Received
    /\ make[u].pc = "idle"
    /\ LET q == get_month_dates_and_categories(expenses, u, today)
       IN  IF q.dates # <<>> /\ q.categories # <<>>
           THEN /\ make' = [make EXCEPT ![u] =
                               [pc |-> "send_document",
                                document |-> Workbook(q.dates, q.categories, q.data)]]
                /\ ev' = Delivery("cmd_make", u, "document",
                                  Workbook(q.dates, q.categories, q.data))
           ELSE /\ make' = [make EXCEPT ![u] =
                               [pc |-> "send_notice", document |-> NoDocument]]
                /\ ev' = Event("cmd_make", u, "notice")
    /\ UNCHANGED <<today, ticks, fsm, expenses, expenses_seq, limits>>

\* The send returned: clear_user_data, then the closing reply.
cmd_make_sent(u) ==
    /\ make[u].pc # "idle"
    /\ expenses' = clear_user_data(expenses, u)
    /\ make' = [make EXCEPT ![u] = MakeIdle]
    /\ ev' = Event("cmd_make", u, "cleared")
    /\ UNCHANGED <<today, ticks, fsm, expenses_seq, limits, update_id>>

\* The send raised: the handler ends with the exception, before the clear.
cmd_make_send_failed(u) ==
    /\ make[u].pc # "idle"
    /\ make' = [make EXCEPT ![u] = MakeIdle]
    /\ ev' = Event("cmd_make", u, "send_failed")
    /\ UNCHANGED <<today, ticks, fsm, expenses, expenses_seq, limits, update_id>>

\* Faulty variant of auto_insert: a ParseError is reported to the user.
auto_insert_reports_error(u, m) ==
    /\ HandlerOf[fsm[u]][m] = "auto_insert"
    /\ Received
    /\ \E p \in {Parsed[m]} :
           IF fsm[u] \in {waiting_data, waiting_limits}
           THEN /\ ev' = Event("auto_insert", u, "none")
                /\ UNCHANGED <<expenses, expenses_seq>>
           ELSE IF ~p.ok
           THEN /\ ev' = ErrorEvent("auto_insert", u, p.line)
                /\ UNCHANGED <<expenses, expenses_seq>>
           ELSE IF IntegrityError(p.items)
           THEN /\ expenses' = add_expenses_db_raised(expenses, expenses_seq, u,
                                                      p.items, today)
                /\ ev' = Event("auto_insert", u, "exception")
                /\ UNCHANGED expenses_seq
           ELSE /\ expenses' = add_expenses_db(expenses, expenses_seq, u, p.items, today)
                /\ expenses_seq' = expenses_seq + Len(p.items)
                /\ ev' = Event("auto_insert", u, "added")
    /\ UNCHANGED <<today, ticks, fsm, limits, make>>

auto_insert(u, m) ==
    /\ HandlerOf[fsm[u]][m] = "auto_insert"
    /\ Received
    /\ \E p \in {Parsed[m]} :
           IF fsm[u] \in {waiting_data, waiting_limits} \/ ~p.ok
           THEN /\ ev' = Event("auto_insert", u, "none")
                /\ UNCHANGED <<expenses, expenses_seq>>
           ELSE IF IntegrityError(p.items)
           THEN /\ expenses' = add_expenses_db_raised(expenses, expenses_seq, u,
                                                      p.items, today)
                /\ ev' = Event("auto_insert", u, "exception")
                /\ UNCHANGED expenses_seq
           ELSE /\ expenses' = add_expenses_db(expenses, expenses_seq, u, p.items, today)
                /\ expenses_seq' = expenses_seq + Len(p.items)
                /\ ev' = Event("auto_insert", u, "added")
    /\ UNCHANGED <<today, ticks, fsm, limits, make>>

\* No handler accepts the message.
unhandled(u, m) ==
    /\ HandlerOf[fsm[u]][m] = "unhandled"
    /\ Received
    /\ ev' = Event("unhandled", u, "none")
    /\ UNCHANGED <<today, ticks, fsm, expenses, expenses_seq, limits, make>>

\* Midnight passes.
Tick ==
    /\ ticks < MaxTicks
    /\ today' = NextDay(today)
    /\ ticks' = ticks + 1
    /\ UNCHANGED <<fsm, expenses, expenses_seq, limits, update_id, make, ev>>

Next ==
    \/ \E u \in Users : \E m \in TextsOf(u) :
          \/ cmd_start(u, m)
          \/ cmd_help(u, m)
          \/ cmd_insert(u, m)
          \/ process_insert_data(u, m)
          \/ cmd_limit(u, m)
          \/ process_limits(u, m)
          \/ cmd_analitick(u, m)
          \/ cmd_stats(u, m)
          \/ cmd_categories(u, m)
          \/ cmd_export(u, m)
          \/ cmd_make(u, m)
          \/ auto_insert(u, m)
          \/ unhandled(u, m)
    \/ \E u \in Users : cmd_make_sent(u) \/ cmd_make_send_failed(u)
    \/ Tick

Spec == Init /\ [][Next]_vars

(***************************************************************************)
(* The reports over a filled database: the bot starts on a budget.db whose *)
(* records lie on and around the bounds of the months, on one of several   *)
(* days, and its users ask for the reports, record expenses and let days   *)
(* pass.                                                                   *)
(***************************************************************************)

Day(y, m, d) == [year |-> y, month |-> m, day |-> d]

Record(id, user_id, d, category, amount) ==
    [id |-> id, user_id |-> user_id, dt |-> strftime_Ymd(d),
     category |-> category, amount |-> amount]

\* Rows of the table expenses of an earlier run (the date of a row may lie after
\* today when the clock of the host was set back since)
FilledExpenses ==
    <<Record(1, 1, Day(2024, 12, 1), <<"a">>, 5 * Scale),
      Record(2, 1, Day(2024, 12, 31), <<"B">>, 1 * Scale),
      Record(3, 1, Day(2025, 1, 1), <<"a">>, 7 * Scale),
      Record(4, 1, Day(2024, 11, 30), <<"a">>, 250),
      Record(5, 1, Day(2024, 12, 1), <<"a">>, 250),
      Record(6, 2, Day(2024, 12, 1), <<"a">>, 5 * Scale),
      Record(7, 1, Day(2024, 3, 1), <<"B">>, 1 * Scale),
      Record(8, 1, Day(2024, 2, 1), <<"a">>, 5 * Scale)>>

\* The table with one of its rows deleted, or none
FilledStores ==
    {SelectSeq(FilledExpenses, LAMBDA r : r.id # k) : k \in 0..Len(FilledExpenses)}

ReportDates == {Day(2024, 2, 29), Day(2024, 12, 1), Day(2024, 12, 31)}

\* User 1 asks and records; the row of user 2 is in the table.
ReportTexts ==
    {Nr(TextStats), Nr(TextAnalitick), Nr(TextCategories), Nr(TextExport),
     Nr(TextOne)}

ReportInit ==
    /\ today \in ReportDates
    /\ ticks = 0
    /\ fsm = [u \in Users |-> NoState]
    /\ expenses \in FilledStores
    /\ expenses_seq = Len(FilledExpenses)
    /\ limits = EarlierStore.limits
    /\ update_id = 0
    /\ make = [u \in Users |-> MakeIdle]
    /\ ev = Event("init", 0, "none")

ReportNext ==
    \/ \E m \in ReportTexts :
          \/ cmd_analitick(1, m)
          \/ cmd_stats(1, m)
          \/ cmd_categories(1, m)
          \/ cmd_export(1, m)
          \/ auto_insert(1, m)
    \/ Tick

ReportSpec == ReportInit /\ [][ReportNext]_vars

(***************************************************************************)
(* A third specification, for the parser: user 1 sends single lines, with  *)
(* one, several or no separators, as plain text, as a batch of expenses    *)
(* and as a batch of limits.                                               *)
(***************************************************************************)

ParserTexts ==
    SeparatorTexts
      \cup {Nr(TextInsert), Nr(TextLimit), Nr(TextOne), Nr(TextEnDash),
            Nr(TextBadAmount), Nr(TextNoCategory), Nr(TextUnknown)}

ParserInit ==
    /\ today \in StartDates
    /\ ticks = 0
    /\ fsm = [u \in Users |-> NoState]
    /\ expenses = FreshStore.expenses
    /\ expenses_seq = FreshStore.expenses_seq
    /\ limits = FreshStore.limits
    /\ update_id = 0
    /\ make = [u \in Users |-> MakeIdle]
    /\ ev = Event("init", 0, "none")

ParserNext ==
    \E m \in ParserTexts :
       \/ cmd_insert(1, m)
       \/ process_insert_data(1, m)
       \/ cmd_limit(1, m)
       \/ process_limits(1, m)
       \/ auto_insert(1, m)
       \/ unhandled(1, m)

ParserSpec == ParserInit /\ [][ParserNext]_vars

(***************************************************************************)
(* Properties                                                              *)
(***************************************************************************)

\* The rows of a table that belong to user u, and those that do not
RowsOf(tbl, u) == SelectSeq(tbl, LAMBDA r : r.user_id = u)

RowsOfOthers(tbl, u) == SelectSeq(tbl, LAMBDA r : r.user_id # u)

Waiting == {waiting_data, waiting_limits}

\* Some line of the text fails to parse (or the text has no line at all), judged
\* line by line.
SomeLineFails ==
    [m \in Texts |->
        LET lines == NonBlankLines(TextList[m])
        IN  lines = <<>> \/ \E i \in 1..Len(lines) : ~ParseLine(lines[i]).ok]

\* The (category, amount) of each non-blank line of a text whose lines all parse
LinePairs ==
    [m \in Texts |->
        LET lines == NonBlankLines(TextList[m])
        IN  [i \in 1..Len(lines) |->
                [category |-> ParseLine(lines[i]).category,
                 amount   |-> ParseLine(lines[i]).amount]]]

\* expenses' is expenses followed by one record of user u per pair, in order
AppendedFor(u, pairs) ==
    /\ Len(expenses') = Len(expenses) + Len(pairs)
    /\ SubSeq(expenses', 1, Len(expenses)) = expenses
    /\ \A i \in 1..Len(pairs) :
          LET r == expenses'[Len(expenses) + i]
          IN  /\ r.user_id = u
              /\ r.category = pairs[i].category
              /\ r.amount = pairs[i].amount
              /\ r.dt = strftime_Ymd(today)
              /\ \A k \in 1..(Len(expenses) + i - 1) : expenses'[k].id < r.id

\* The step ended with an exception of the store.
StoreRaised == ev'.reply = "exception"

C2_BadBatchChangesNothing ==
    [][\A u \in Users : \A m \in TextsOf(u) :
          ((process_insert_data(u, m) \/ process_limits(u, m))
             /\ SomeLineFails[m])
            => /\ fsm[u] \in Waiting
               /\ fsm'[u] = fsm[u]
               /\ expenses' = expenses
               /\ limits' = limits]_vars

\* "a-5" then "b" was refused for its second line; the sender still waits and
\* the valid first line left no record of this run.
C2_Witness ==
    /\ ev = ErrorEvent("process_insert_data", 1, <<"b">>)
    /\ fsm[1] = waiting_data
    /\ \A k \in 1..Len(expenses) : expenses[k].id <= 2

\* C3: a user leaves a waiting state for no state only by a step of the state's
\* handler on a message whose lines all parse; no other message, command or
\* tick does it.
C3_WaitingPersists ==
    [][\A u \in Users :
          (fsm[u] \in Waiting /\ fsm'[u] \notin Waiting)
            => \E m \in TextsOf(u) :
                  /\ ~SomeLineFails[m]
                  /\ process_insert_data(u, m) \/ process_limits(u, m)]_vars

\* The command /stats arrived while user 1 waited for a batch, a day after the
\* start, and user 1 still waits.
C3_Witness ==
    /\ ev = ErrorEvent("process_insert_data", 1, TextStats)
    /\ fsm[1] = waiting_data
    /\ ticks > 0

Accounted(document, r, rows) ==
    \E i \in 1..Len(document.rows) : \E j \in 1..Len(document.header) :
       /\ document.rows[i].date = strftime_dmY(strptime_Ymd(r.dt))
       /\ document.header[j] = r.category
       /\ ~document.rows[i].cells[j].blank
       /\ document.rows[i].cells[j].value =
             SumAmount(SelectSeq(rows, LAMBDA x : x.dt = r.dt /\ x.category = r.category))

\* C5: when /make completes, its user has no expense record left and every
\* record the clear deleted is accounted for in the sheet that /make sent.
C5_MakeExportsWhatItClears ==
    [][\A u \in Users :
          cmd_make_sent(u)
            => /\ RowsOf(expenses', u) = <<>>
               /\ \A r \in Range(RowsOf(expenses, u)) :
                     Accounted(make[u].document, r, RowsOf(expenses, u))]_vars

\* C6: no /make step before the send has returned touches the expenses, a failed
\* send ends /make with the expenses as they were, and a record of a user
\* disappears only in the step that follows the successful send of that user's
\* /make.
C6_ClearOnlyAfterDelivery ==
    [][/\ \A u \in Users :
             cmd_make_send_failed(u) => expenses' = expenses /\ limits' = limits
       /\ \A u \in Users : \A m \in TextsOf(u) :
             expenses' = expenses \/ ~cmd_make(u, m)
       /\ \A u \in Users :
             (expenses' # expenses
                /\ \E r \in Range(expenses) : r.user_id = u /\ r \notin Range(expenses'))
               => /\ make[u].pc \in {"send_document", "send_notice"}
                  /\ ev' = Event("cmd_make", u, "cleared")]_vars

\* The send of the /make of user 1 failed and the records of user 1 are there.
C6_Witness ==
    /\ ev = Event("cmd_make", 1, "send_failed")
    /\ make[1].pc = "idle"
    /\ RowsOf(expenses, 1) # <<>>

\* C7: the clear of /make removes every expense record of its user, and leaves
\* the expense records of the other users and the whole limits table as they were.
C7_ClearFrame ==
    [][\A u \in Users :
          cmd_make_sent(u)
            => /\ RowsOf(expenses', u) = <<>>
               /\ RowsOfOthers(expenses', u) = RowsOfOthers(expenses, u)
               /\ limits' = limits]_vars

\* /make of user 1 has cleared the record user 1 had at the start; the record of
\* user 2 and the limits of both users are in place.
C7_Witness ==
    /\ ev = Event("cmd_make", 1, "cleared")
    /\ EarlierStore.expenses[1] \notin Range(expenses)
    /\ EarlierStore.expenses[2] \in Range(expenses)
    /\ limits = EarlierStore.limits

\* C8: the limits table never holds two rows of one (user_id, category).
C8_OneLimitPerCategory ==
    \A i, j \in 1..Len(limits) :
        (limits[i].user_id = limits[j].user_id /\ limits[i].category = limits[j].category)
          => i = j

\* User 1 has set the limit of "a" to the value it already had.
C8_Witness ==
    /\ ev.handler = "process_limits" /\ ev.user = 1 /\ ev.reply = "limits_updated"
    /\ limits = EarlierStore.limits

\* The limit get_limits_db reports for category c of user u: a set, empty when
\* there is none
LimitOf(tbl, u, c) ==
    {p[2] : p \in {q \in Range(get_limits_db(tbl, u)) : q[1] = c}}

LimitCategories(tbl) == {tbl[k].category : k \in 1..Len(tbl)}

\* C9: after a limit batch of user u that the store took, the limit of each category the batch names
\* is the amount of the last line naming it; the limits of the other categories
\* of u and all limits of the other users are what they were.
C9_LastWriteWins ==
    [][\A u \in Users : \A m \in TextsOf(u) :
          (process_limits(u, m) /\ ~SomeLineFails[m] /\ ~StoreRaised)
            => LET pairs == LinePairs[m]
                   named(c) == {i \in 1..Len(pairs) : pairs[i].category = c}
                   last(c)  == CHOOSE i \in named(c) : \A j \in named(c) : j <= i
               IN  /\ \A c \in LimitCategories(limits) \cup LimitCategories(limits') :
                         IF named(c) # {}
                         THEN LimitOf(limits', u, c) = {pairs[last(c)].amount}
                         ELSE LimitOf(limits', u, c) = LimitOf(limits, u, c)
                   /\ \A i \in 1..Len(pairs) :
                         pairs[i].category \in LimitCategories(limits')
                   /\ \A v \in Users \ {u} :
                         get_limits_db(limits', v) = get_limits_db(limits, v)]_vars

\* User 1 has sent "a-7", blank, "a-2,5" as limits over the limit 5 of "a": the
\* limit is 2.5, and the limit of user 2 is the one of the start.
C9_Witness ==
    /\ ev.handler = "process_limits" /\ ev.user = 1 /\ ev.reply = "limits_updated"
    /\ LimitOf(limits, 1, <<"a">>) = {250}
    /\ LimitOf(limits, 2, <<"a">>) = {5 * Scale}

\* C10: every step leaves the stored expense records as they are and in place,
\* except the clear of /make, which removes records of its user only; a handled
\* text whose lines all parse adds, unless the store raises, exactly one record,
\* with a new id, per pair.
C10_AppendOnly ==
    [][/\ \/ /\ Len(expenses') >= Len(expenses)
             /\ SubSeq(expenses', 1, Len(expenses)) = expenses
             /\ \A k \in (Len(expenses) + 1)..Len(expenses') :
                   expenses'[k].id > expenses_seq
          \/ \E u \in Users :
                /\ cmd_make_sent(u)
                /\ expenses' = RowsOfOthers(expenses, u)
       /\ \A u \in Users : \A m \in TextsOf(u) :
             ((process_insert_data(u, m)
                 \/ (auto_insert(u, m) /\ fsm[u] = NoState))
              /\ ~SomeLineFails[m] /\ ~StoreRaised)
               => Len(expenses') = Len(expenses) + Len(LinePairs[m])]_vars

\* The same text was recorded twice: two records that differ in the id alone.
C10_Witness ==
    \E i, j \in 1..Len(expenses) :
       /\ i < j
       /\ expenses[i].id < expenses[j].id
       /\ [expenses[i] EXCEPT !.id = 0] = [expenses[j] EXCEPT !.id = 0]

(***************************************************************************)
(* The reports                                                             *)
(***************************************************************************)

\* The day a record is dated, and the order of the days
DateOf(r) == strptime_Ymd(r.dt)

DateLess(d, e) ==
    \/ d.year < e.year
    \/ d.year = e.year /\ d.month < e.month
    \/ d.year = e.year /\ d.month = e.month /\ d.day < e.day

FirstOfMonth(d) == Day(d.year, d.month, 1)

FirstOfNextMonth(d) ==
    IF d.month = 12 THEN Day(d.year + 1, 1, 1) ELSE Day(d.year, d.month + 1, 1)

\* first day of the month of d <= day of r < first day of the next month
InWindow(r, d) ==
    /\ ~DateLess(DateOf(r), FirstOfMonth(d))
    /\ DateLess(DateOf(r), FirstOfNextMonth(d))

\* The records of user u inside the window of today, and their categories
WindowOf(u) == {r \in Range(expenses) : r.user_id = u /\ InWindow(r, today)}

WindowCategories(u) == {r.category : r \in WindowOf(u)}

\* The sum of the amounts of a set of records
RECURSIVE SumOver(_)
SumOver(S) ==
    IF S = {} THEN 0
    ELSE LET r == CHOOSE x \in S : TRUE IN r.amount + SumOver(S \ {r})

\* The lines of one kind of a report
LinesOf(data, kind) == SelectSeq(data, LAMBDA l : l.kind = kind)

\* C11: the total of the summary of the month is the sum of its lines per
\* category, and there is one line for each category with a record of the user
\* inside the window, with the sum of the amounts of exactly those records.
C11_SummaryTotals ==
    [][\A u \in Users : \A m \in Texts :
          (cmd_stats(u, m) /\ ev'.reply = "summary")
            => LET total == LinesOf(ev'.data, "total")
                   spent == LinesOf(ev'.data, "spent")
               IN  /\ Len(total) = 1
                   /\ total[1].amount = SumAmount(spent)
                   /\ Len(spent) = Cardinality(WindowCategories(u))
                   /\ \A c \in WindowCategories(u) :
                         \E i \in 1..Len(spent) :
                            /\ spent[i].category = c
                            /\ spent[i].amount =
                                  SumOver({r \in WindowOf(u) : r.category = c})]_vars

\* On 2024-12-31 the summary of user 1 has the total 8.5: 7.5 of the two records
\* of "a" of 2024-12-01 and 1 of "B", the record of 2024-11-30 being in the table.
C11_Witness ==
    /\ ev.handler = "cmd_stats"
    /\ today = Day(2024, 12, 31)
    /\ FilledExpenses[4] \in Range(expenses)
    /\ ev.data = <<Line("total", <<>>, 850), Line("spent", <<"a">>, 750),
                   Line("spent", <<"B">>, 1 * Scale)>>

\* C12: the rows the queries of the month select are the records of the user
\* dated from the first day of the month of today up to, and without, the first
\* day of the next month; the summary, the list of categories and the export
\* show the categories of exactly those records; and a record written today is
\* among them.
C12_HalfOpenWindow ==
    [][\A u \in Users : \A m \in Texts :
          /\ (cmd_stats(u, m) \/ cmd_categories(u, m) \/ cmd_export(u, m))
                => /\ Range(MonthRows(expenses, u, today)) = WindowOf(u)
                   /\ (ev'.reply = "no_data") = (WindowOf(u) = {})
          /\ cmd_stats(u, m)
                => {l.category : l \in Range(LinesOf(ev'.data, "spent"))}
                      = WindowCategories(u)
          /\ cmd_categories(u, m)
                => {l.category : l \in Range(ev'.data)} = WindowCategories(u)
          /\ cmd_export(u, m)
                => Range(ev'.document.header) = WindowCategories(u)
          /\ auto_insert(u, m)
                => \A r \in Range(expenses') \ Range(expenses) :
                      /\ InWindow(r, today)
                      /\ r \in Range(MonthRows(expenses', u, today))]_vars

\* On 2024-12-31 user 1 has records of 2024-12-01 (the start), of 2024-12-31,
\* of 2025-01-01 (the end) and of 2024-11-30, and the list shows both categories:
\* "B" is that of the record of 2024-12-31 alone.
C12_Witness ==
    /\ ev.handler = "cmd_categories"
    /\ today = Day(2024, 12, 31)
    /\ {FilledExpenses[k] : k \in 1..4} \subseteq Range(expenses)
    /\ ev.data = <<Line("category", <<"B">>, 0), Line("category", <<"a">>, 0)>>
    /\ FilledExpenses[3] \notin Range(MonthRows(expenses, 1, today))
    /\ FilledExpenses[1] \in Range(MonthRows(expenses, 1, today))

\* The day a row of the sheet is labelled with: "dd.mm.YYYY"
LabelDate(label) ==
    Day(DecimalValue(SubSeq(label, 7, 10)), DecimalValue(SubSeq(label, 4, 5)),
        DecimalValue(SubSeq(label, 1, 2)))

\* C13: the exported sheet has one row per day with a record of the user inside
\* the window, in ascending order of the days, and one column per category of
\* those records; a cell holds the sum of the amounts of the records of its day
\* and category, and is blank when there is none.
C13_ExportTable ==
    [][\A u \in Users : \A m \in Texts :
          (cmd_export(u, m) /\ ev'.reply = "document")
            => LET doc  == ev'.document
                   days == {DateOf(r) : r \in WindowOf(u)}
               IN  /\ {LabelDate(doc.rows[i].date) : i \in 1..Len(doc.rows)} = days
                   /\ Len(doc.rows) = Cardinality(days)
                   /\ \A i, j \in 1..Len(doc.rows) :
                         i < j => DateLess(LabelDate(doc.rows[i].date),
                                           LabelDate(doc.rows[j].date))
                   /\ Range(doc.header) = WindowCategories(u)
                   /\ Len(doc.header) = Cardinality(WindowCategories(u))
                   /\ \A i \in 1..Len(doc.rows) :
                         /\ Len(doc.rows[i].cells) = Len(doc.header)
                         /\ \A j \in 1..Len(doc.header) :
                               LET S == {r \in WindowOf(u) :
                                           /\ DateOf(r) = LabelDate(doc.rows[i].date)
                                           /\ r.category = doc.header[j]}
                                   cell == doc.rows[i].cells[j]
                               IN  IF S = {} THEN cell.blank
                                   ELSE ~cell.blank /\ cell.value = SumOver(S)]_vars

\* The sheet of December 2024 of user 1: the rows 01.12.2024 and 31.12.2024, the
\* columns "B" and "a"; 7.5 under "a" and nothing under "B" on the first day, 1
\* under "B" and nothing under "a" on the last.
C13_Witness ==
    /\ ev.handler = "cmd_export"
    /\ ev.document.header = <<<<"B">>, <<"a">>>>
    /\ Len(ev.document.rows) = 2
    /\ ev.document.rows[1].date = strftime_dmY(Day(2024, 12, 1))
    /\ ev.document.rows[1].cells = <<[blank |-> TRUE, value |-> 0],
                                     [blank |-> FALSE, value |-> 750]>>
    /\ ev.document.rows[2].date = strftime_dmY(Day(2024, 12, 31))
    /\ ev.document.rows[2].cells[2].blank

\* C14: /export, and the export of /make, of a user without a record inside the
\* window still send a sheet: the header row alone.
C14_HeaderOnlySheet ==
    [][\A u \in Users : \A m \in Texts :
          ((cmd_export(u, m) \/ cmd_make(u, m)) /\ WindowOf(u) = {})
            => /\ ev'.reply = "document"
               /\ ev'.document.header = <<>>
               /\ ev'.document.rows = <<>>]_vars

\* C15: for every category with a sum in the summary of the month and a limit of
\* the user, the summary has a line of what is left, limit - spent, when the sum
\* is not above the limit, and a line of the excess, spent - limit, when it is.
C15_LimitComparison ==
    [][\A u \in Users : \A m \in Texts :
          (cmd_stats(u, m) /\ ev'.reply = "summary")
            => \A c \in WindowCategories(u) : \A limit \in LimitOf(limits, u, c) :
                  LET spent == SumOver({r \in WindowOf(u) : r.category = c})
                  IN  IF spent <= limit
                      THEN Line("left", c, limit - spent) \in Range(ev'.data)
                      ELSE Line("over", c, spent - limit) \in Range(ev'.data)]_vars

\* C16 as claimed: when the store raises on item k of a batch of expenses, the
\* records of the items 1..k-1 of the batch are in the table.
C16_EarlierLinesStay ==
    [][\A u \in Users : \A m \in Texts :
          ((process_insert_data(u, m) \/ auto_insert(u, m)) /\ StoreRaised)
            => AppendedFor(u, SubSeq(LinePairs[m], 1,
                                     FirstRaising(Parsed[m].items) - 1))]_vars

\* C16 as amended: a batch is written in one transaction; when the store raises
\* on an item of a batch of expenses or of limits, no item of the batch is in the
\* tables: both tables, the sequence of the ids and the state of the sender are
\* what they were.
C16_BatchRolledBack ==
    [][StoreRaised
         => /\ expenses' = expenses
            /\ expenses_seq' = expenses_seq
            /\ limits' = limits
            /\ fsm' = fsm]_vars

\* The store raised on the second line of "a-5", "a-nan" that user 1 sent as a
\* batch of expenses; user 1 still waits.
C16_Witness ==
    /\ ev = Event("process_insert_data", 1, "exception")
    /\ fsm[1] = waiting_data

\* The step takes a message of the user u from the polling loop and gives it to
\* the handler h (every handler writes its name and the sender to ev).
HandledBy(u, h) == update_id' = update_id + 1 /\ ev'.handler = h /\ ev'.user = u

\* C17: a step changes no expense and no limit record of a user other than the
\* sender of its message, and what /stats, /analitick, /categories, /export,
\* /make and the list of limits show to a user is what the handler answers on
\* the tables cut down to the rows of that user.
C17_OwnerIsolation ==
    [][/\ RowsOfOthers(expenses', ev'.user) = RowsOfOthers(expenses, ev'.user)
       /\ RowsOfOthers(limits', ev'.user) = RowsOfOthers(limits, ev'.user)
       /\ \A u \in Users :
             /\ HandledBy(u, "cmd_stats")
                   => ev' \in stats_answers(RowsOf(expenses, u), u, today)
             /\ HandledBy(u, "cmd_analitick")
                   => ev' \in analitick_answers(RowsOf(expenses, u), u, today)
             /\ HandledBy(u, "cmd_categories")
                   => ev' = categories_answer(RowsOf(expenses, u), u, today)
             /\ HandledBy(u, "cmd_export")
                   => ev' = export_answer(RowsOf(expenses, u), u, today)
             /\ HandledBy(u, "cmd_make")
                   => make'[u].document
                        = export_answer(RowsOf(expenses, u), u, today).document
             /\ (HandledBy(u, "process_limits") /\ ev'.reply = "limits_updated")
                   => \A m \in Texts :
                         process_limits(u, m)
                           => ev' = limits_answer(RowsOf(limits', u), u,
                                                  Parsed[m].items)]_vars

\* On 2024-12-31 the summary of user 1 shows the 5 of the record user 1 has just
\* written, and user 2 has a record of 5 of the same category in the month.
C17_Witness ==
    /\ ev = Report("cmd_stats", 1, "summary",
                   <<Line("total", <<>>, 5 * Scale), Line("spent", <<"a">>, 5 * Scale)>>)
    /\ today = Day(2024, 12, 31)
    /\ EarlierStore.expenses[2] \in Range(expenses)

\* C18: every stored expense record has a category that is not empty and an
\* amount above 0, and so has every stored limit record.
C18_StoredRecordsValid ==
    /\ \A k \in 1..Len(expenses) :
          expenses[k].category # <<>> /\ expenses[k].amount > 0
    /\ \A k \in 1..Len(limits) :
          limits[k].category # <<>> /\ limits[k].limit_amount > 0

\* "a-5", "a-nan" of user 1 passed the parser and the store refused it, after
\* user 1 had written a record.
C18_Witness ==
    /\ ev = Event("auto_insert", 1, "exception")
    /\ \E k \in 1..Len(expenses) : expenses[k].user_id = 1 /\ expenses[k].id > 2

\* C19: every record of the month that the clear of /make deletes is accounted
\* for in the sheet /make sent, also when a message of the same user was handled
\* while /make waited for the send.
C19_MakeLosesNothing ==
    [][\A u \in Users :
          cmd_make_sent(u)
            => \A r \in WindowOf(u) :
                  Accounted(make[u].document, r, RowsOf(expenses, u))]_vars

\* The message (u, m) is handled in this step.
Handled(u, m) ==
    \/ cmd_start(u, m) \/ cmd_help(u, m) \/ cmd_insert(u, m)
    \/ process_insert_data(u, m) \/ cmd_limit(u, m) \/ process_limits(u, m)
    \/ cmd_analitick(u, m) \/ cmd_stats(u, m) \/ cmd_categories(u, m)
    \/ cmd_export(u, m) \/ cmd_make(u, m) \/ auto_insert(u, m) \/ unhandled(u, m)

\* C20: in every state of the sender the command /insert leaves the sender in
\* waiting_data and the command /limit leaves the sender in waiting_limits, and
\* neither writes to a table.
C20_CommandsEnterBatchMode ==
    [][\A u \in Users : \A m \in TextsOf(u) :
          Handled(u, m)
            => /\ TextList[m] = TextInsert
                     => /\ fsm'[u] = waiting_data
                        /\ expenses' = expenses /\ limits' = limits
               /\ TextList[m] = TextLimit
                     => /\ fsm'[u] = waiting_limits
                        /\ expenses' = expenses /\ limits' = limits]_vars

\* The position of the first character of the line that is a hyphen, an em dash
\* or an en dash; 0 when the line has none
EarliestSeparator(line) ==
    IF \E i \in 1..Len(line) : line[i] \in {"-", EmDash, EnDash}
    THEN CHOOSE i \in 1..Len(line) :
            /\ line[i] \in {"-", EmDash, EnDash}
            /\ \A j \in 1..(i - 1) : line[j] \notin {"-", EmDash, EnDash}
    ELSE 0

\* The only line of a text of one line
OnlyLine(m) == NonBlankLines(TextList[m])[1]

\* C21: a message of one line that has a separator is parsed as the category
\* before the earliest hyphen, em dash or en dash of the line and the amount
\* after it: when that pair is a valid one it is what the handler stores, and
\* when it is not nothing is stored; a line without separator fails with the
\* missing-separator error that names the line, and nothing is stored.
C21_SplitAtEarliestSeparator ==
    [][\A m \in ParserTexts :
          (/\ Len(NonBlankLines(TextList[m])) = 1
           /\ process_insert_data(1, m) \/ process_limits(1, m) \/ auto_insert(1, m))
            => LET line    == OnlyLine(m)
                   claimed == ParseLineAt(line, EarliestSeparator(line))
               IN  IF EarliestSeparator(line) = 0
                   THEN /\ ~Parsed[m].ok
                        /\ Parsed[m].error = "MissingSeparator"
                        /\ Parsed[m].line = line
                        /\ ev'.handler # "auto_insert" => ev' = ErrorEvent(ev'.handler, 1, line)
                        /\ expenses' = expenses /\ limits' = limits
                   ELSE IF claimed.ok /\ ~claimed.nan
                   THEN IF ev'.handler = "process_limits"
                        THEN LimitOf(limits', 1, claimed.category) = {claimed.amount}
                        ELSE AppendedFor(1, <<[category |-> claimed.category,
                                               amount   |-> claimed.amount]>>)
                   ELSE expenses' = expenses /\ limits' = limits]_vars

====
